---------------------------- MODULE Spec2Model ----------------------------
(***************************************************************************)
(* The trivia API of flaskr/__init__.py: seven request handlers on top of  *)
(* a question table and a category table, and the error handlers that      *)
(* shape the failure responses.                                            *)
(*                                                                         *)
(* Text is a sequence of characters, so that the pattern match of the      *)
(* search and the integer parse of the inputs are computed and not         *)
(* assumed.  A character is a string: a printable ASCII character, and     *)
(* one of the escapes "\t", "\n", "\f", "\r", is the string of that one    *)
(* character; any other character is named by its code point, "U+000B",    *)
(* "U+00A0", so that a text reads the same in every encoding of this       *)
(* file.  The texts of the model hold characters up to U+00FF.             *)
(* A JSON value of a request is a record [t, n, s]: t its type ("null",    *)
(* "int", "str"), n the number, s the characters.                          *)
(***************************************************************************)
EXTENDS Integers, Sequences, FiniteSets, TLC

VARIABLES
    questions,    \* the question table, rows in id order
    categories,   \* the category table: id -> type
    nextId,       \* the id the next inserted question gets
    pc,           \* "idle" | "loop", "test" (in play_quiz's while) | "done"
    request,      \* the request being served, or the last one served
    response,     \* the response of the last request served
    session,      \* what happened to db.session while serving the request
    local,        \* play_quiz's locals: questions (the pool), question (the draw)
    served,       \* number of requests taken so far
    trip          \* history: the create-then-delete round trip under way

vars == <<questions, categories, nextId, pc, request, response, session,
          local, served, trip>>

---------------------------------------------------------------------------
\* Bounds of the model.

\* Initial tables hold 0..MaxSeed questions, or one page and one question.
MaxSeed == 2
\* Requests served in one behaviour.
MaxRequests == 3

\* Pagination global variable.
QUESTIONS_PER_PAGE == 10

---------------------------------------------------------------------------
\* JSON values and Python's conversions.

JNull == [t |-> "null", n |-> 0, s |-> <<>>]
JInt(n) == [t |-> "int", n |-> n, s |-> <<>>]
JStr(s) == [t |-> "str", n |-> 0, s |-> s]

\* Python truthiness of a JSON value: None, 0 and "" are falsy.
Truthy(v) ==
    CASE v.t = "null" -> FALSE
      [] v.t = "int" -> v.n # 0
      [] OTHER -> v.s # <<>>

DigitChars == <<"0", "1", "2", "3", "4", "5", "6", "7", "8", "9">>

Digits == {DigitChars[i] : i \in 1..Len(DigitChars)}

DigitVal(c) == (CHOOSE i \in 1..Len(DigitChars) : DigitChars[i] = c) - 1

RECURSIVE Decimal(_)
Decimal(s) ==
    IF s = <<>> THEN 0
    ELSE 10 * Decimal(SubSeq(s, 1, Len(s) - 1)) + DigitVal(s[Len(s)])

\* The white space int() skips around a number: tab, line feed, vertical
\* tab, form feed, carriage return, space, and of the characters beyond
\* ASCII up to U+00FF the two that are white space, U+0085 and U+00A0.
\* (U+001C..U+001F are not skipped.)
WhiteSpace ==
    {"\t", "\n", "U+000B", "\f", "\r", " ", "U+0085", "U+00A0"}

\* The white space an integer read by the data layer may stand in: tab,
\* line feed, vertical tab, form feed, carriage return, space.
SqlWhiteSpace == {"\t", "\n", "U+000B", "\f", "\r", " "}

\* s without the characters of ws at its two ends
RECURSIVE Trim(_, _)
Trim(s, ws) ==
    IF s = <<>> THEN s
    ELSE IF Head(s) \in ws THEN Trim(Tail(s), ws)
    ELSE IF s[Len(s)] \in ws THEN Trim(SubSeq(s, 1, Len(s) - 1), ws)
    ELSE s

\* The text int() reads: s without the white space at its two ends.
Strip(s) == Trim(s, WhiteSpace)

\* The text of a number without its sign, and the sign.
Unsigned(s) == IF s # <<>> /\ Head(s) \in {"+", "-"} THEN Tail(s) ELSE s

Sign(s) == IF s # <<>> /\ Head(s) = "-" THEN -1 ELSE 1

\* Digits, with single underscores between them when grouped is TRUE.
IsDigits(s, grouped) ==
    /\ s # <<>>
    /\ s[1] \in Digits
    /\ s[Len(s)] \in Digits
    /\ \A i \in 1..Len(s) : s[i] \in Digits \/ (grouped /\ s[i] = "_")
    /\ \A i \in 1..(Len(s) - 1) : ~(s[i] = "_" /\ s[i + 1] = "_")

Ungrouped(s) == SelectSeq(s, LAMBDA c : c # "_")

\* int(v): None raises TypeError; a text is a number when, white space
\* around it aside, it is an optional sign and decimal digits, with single
\* underscores allowed between digits, and raises ValueError otherwise.
PyInt(v) ==
    CASE v.t = "null" -> [ok |-> FALSE, exc |-> "TypeError", n |-> 0]
      [] v.t = "int" -> [ok |-> TRUE, exc |-> "none", n |-> v.n]
      [] OTHER ->
           IF IsDigits(Unsigned(Strip(v.s)), TRUE)
           THEN [ok |-> TRUE, exc |-> "none",
                 n |-> Sign(Strip(v.s)) * Decimal(Ungrouped(Unsigned(Strip(v.s))))]
           ELSE [ok |-> FALSE, exc |-> "ValueError", n |-> 0]

\* str(n) of an integer
RECURSIVE IntText(_)
IntText(n) ==
    IF n < 0 THEN <<"-">> \o IntText(-n)
    ELSE IF n < 10 THEN <<DigitChars[n + 1]>>
    ELSE IntText(n \div 10) \o <<DigitChars[(n % 10) + 1]>>

\* f'{v}' of a search term: None prints as the text None, a number as its
\* digits.
PyStr(v) ==
    CASE v.t = "null" -> <<"N", "o", "n", "e">>
      [] v.t = "int" -> IntText(v.n)
      [] OTHER -> v.s

\* What a text column stores of a value of the body: a number as its digits.
TextColumn(v) == IF v.t = "int" THEN IntText(v.n) ELSE v.s

\* What the integer column category stores of a value of the body: a text
\* that is a number as that number; the data layer refuses any other text.
IntegerColumn(v) ==
    CASE v.t = "int" -> [ok |-> TRUE, n |-> v.n]
      [] OTHER ->
           IF IsDigits(Unsigned(Trim(v.s, SqlWhiteSpace)), FALSE)
           THEN [ok |-> TRUE,
                 n |-> Sign(Trim(v.s, SqlWhiteSpace))
                         * Decimal(Unsigned(Trim(v.s, SqlWhiteSpace)))]
           ELSE [ok |-> FALSE, n |-> 0]

\* Lower case, over the letters the texts of the model use.
Lower(c) ==
    CASE c = "A" -> "a"
      [] c = "B" -> "b"
      [] c = "N" -> "n"
      [] OTHER -> c

\* SQL LIKE, letter case aside: % stands for any run of characters, _ for
\* any one character.  (The texts of the model hold no escape character.)
RECURSIVE Like(_, _)
Like(p, s) ==
    IF p = <<>> THEN s = <<>>
    ELSE IF Head(p) = "%"
         THEN Like(Tail(p), s) \/ (s # <<>> /\ Like(p, Tail(s)))
         ELSE /\ s # <<>>
              /\ (Head(p) = "_" \/ Lower(Head(p)) = Lower(Head(s)))
              /\ Like(Tail(p), Tail(s))

\* Question.question.ilike(f'%{search_term}%')
ILikeTerm(text, term) == Like(<<"%">> \o PyStr(term) \o <<"%">>, text)

---------------------------------------------------------------------------
\* The tables.

Question(id, question, answer, difficulty, category) ==
    [id |-> id, question |-> question, answer |-> answer,
     difficulty |-> difficulty, category |-> category]

Format(q) ==
    [id |-> q.id, question |-> q.question, answer |-> q.answer,
     difficulty |-> q.difficulty, category |-> q.category]

FormatAll(qs) == [i \in 1..Len(qs) |-> Format(qs[i])]

SeedText(i) ==
    CASE i % 3 = 1 -> <<"a">>
      [] i % 3 = 2 -> <<"A", "b">>
      [] OTHER -> <<"b">>

SeedQuestion(i) == Question(i, SeedText(i), <<"a">>, 1, 1 + (i % 2))

SeedTable(n) == [i \in 1..n |-> SeedQuestion(i)]

SeedSizes == (0..MaxSeed) \cup {QUESTIONS_PER_PAGE + 1}

SeedCategories == {<<>>, <<"Science", "Art">>}

Ids(qs) == {qs[i].id : i \in 1..Len(qs)}

Rows(qs) == {qs[i] : i \in 1..Len(qs)}

\* Question.query.get(id): the row, or nothing.
Get(qs, id) == SelectSeq(qs, LAMBDA q : q.id = id)

\* db.session.delete(question); db.session.commit()
DeleteRow(qs, id) == SelectSeq(qs, LAMBDA q : q.id # id)

\* db.session.add(new_question); db.session.commit()
InsertRow(qs, q) == Append(qs, q)

\* Question.query.filter_by(category=id).all()
FilterByCategory(qs, id) == SelectSeq(qs, LAMBDA q : q.category = id)

\* Question.query.filter(Question.question.ilike(...)).all()
FilterByTerm(qs, term) == SelectSeq(qs, LAMBDA q : ILikeTerm(q.question, term))

---------------------------------------------------------------------------
\* Outcomes of a handler's try block, and the error handlers.

Return(body) == [kind |-> "return", exc |-> "none", body |-> body]

Raise(exc) == [kind |-> "raise", exc |-> exc, body |-> <<>>]

\* abort(code) raises the HTTP exception of that code; flask answers an
\* exception that reaches it with the handler registered for its code, and
\* any other exception with 500.
AbortCode(exc) ==
    CASE exc = "BadRequest" -> 400
      [] exc = "NotFound" -> 404
      [] exc = "UnprocessableEntity" -> 422
      [] OTHER -> 500

ErrorMessage(code) ==
    CASE code = 400 -> "Bad request error"
      [] code = 404 -> "Resource not found"
      [] code = 422 -> "Unprocessable entity"
      [] OTHER -> "An error has occured, please try again"

\* bad_request, not_found, internal_server_error, unprocesable_entity
ErrorHandler(code) ==
    [status |-> code,
     body |-> [success |-> FALSE, error |-> code, message |-> ErrorMessage(code)]]

\* Mutant: an except block that lets the HTTP exceptions of abort() pass,
\* without a rollback.
ExceptPassesAborts(exc) ==
    IF exc \in {"BadRequest", "NotFound"}
    THEN [rolledBack |-> FALSE, reraised |-> exc]
    ELSE [rolledBack |-> TRUE, reraised |-> "UnprocessableEntity"]

\* The except block every handler ends with: it catches Exception, which
\* the HTTP exceptions of abort() are too, rolls the session back and
\* aborts with 422.
Except(exc) == [rolledBack |-> TRUE, reraised |-> "UnprocessableEntity"]

NoResponse == [status |-> 0, body |-> <<>>]

\* The session of a request that has just been taken.
NoSession == [raised |-> "none", rolledBack |-> FALSE, closed |-> 0]

\* The finally block every handler ends with: db.session.close().
Finally(s) == [s EXCEPT !.closed = @ + 1]

\* try / except Exception / finally of a handler, applied to the outcome
\* of the try block: the response, and the session's record.
Respond(outcome) ==
    IF outcome.kind = "return"
    THEN /\ response' = [status |-> 200, body |-> outcome.body]
         /\ session' = Finally(NoSession)
    ELSE LET e == Except(outcome.exc)
         IN /\ response' = ErrorHandler(AbortCode(e.reraised))
            /\ session' = Finally([NoSession EXCEPT !.raised = outcome.exc,
                                                    !.rolledBack = e.rolledBack])

NoLocal == [questions |-> <<>>, question |-> <<>>]

\* History of the last requests, kept for the round-trip property only: a
\* question was created (its id, and the table before), and then deleted.
NoTrip == [stage |-> "none", id |-> 0, table |-> <<>>]

TripNext ==
    IF pc' # "done" \/ response'.status # 200 THEN NoTrip
    ELSE IF request'.kind = "add_question"
    THEN [stage |-> "created", id |-> response'.body.id, table |-> questions]
    ELSE IF /\ trip.stage = "created"
            /\ request'.kind = "delete_question"
            /\ request'.id = trip.id
    THEN [trip EXCEPT !.stage = "deleted"]
    ELSE NoTrip

\* The server takes a request when it is not inside one.
Ready == pc \notin {"loop", "test"} /\ served < MaxRequests

Init ==
    /\ \E n \in SeedSizes : questions = SeedTable(n) /\ nextId = n + 1
    /\ categories \in SeedCategories
    /\ pc = "idle"
    /\ request = [kind |-> "none"]
    /\ response = NoResponse
    /\ session = NoSession
    /\ local = NoLocal
    /\ served = 0
    /\ trip = NoTrip

---------------------------------------------------------------------------
\* GET /categories

get_categories_try(fault) ==
    IF fault THEN Raise("DataError")
    ELSE IF categories = <<>> THEN Raise("NotFound")
    ELSE Return([success |-> TRUE, categories |-> categories])

get_categories ==
    \E fault \in BOOLEAN :
        /\ Ready
        /\ request' = [kind |-> "get_categories", fault |-> fault]
        /\ Respond(get_categories_try(fault))
        /\ pc' = "done"
        /\ served' = served + 1
        /\ local' = NoLocal
        /\ UNCHANGED <<questions, categories, nextId>>
        /\ trip' = TripNext

---------------------------------------------------------------------------
\* GET /questions?page=N

\* request.args.get('page', 1)
PageArg(v) == IF v.t = "null" THEN JInt(1) ELSE v

\* Question.query.paginate(page, per_page): the rows at offset
\* (page - 1) * per_page, at most per_page of them, and the count of the
\* whole table; 404 for a page below 1 and for an empty page other than
\* the first.
Paginate(qs, page, per_page) ==
    LET first == (page - 1) * per_page + 1
        last == IF page * per_page < Len(qs) THEN page * per_page ELSE Len(qs)
        items == IF page < 1 THEN <<>> ELSE SubSeq(qs, first, last)
    IN IF page < 1 \/ (items = <<>> /\ page # 1)
       THEN [ok |-> FALSE, items |-> <<>>, total |-> 0]
       ELSE [ok |-> TRUE, items |-> items, total |-> Len(qs)]

get_questions_try(arg, fault) ==
    LET page == PyInt(PageArg(arg))
        paged == Paginate(questions, page.n, QUESTIONS_PER_PAGE)
        questions_data == FormatAll(paged.items)
    IN IF ~page.ok THEN Raise(page.exc)
       ELSE IF fault THEN Raise("DataError")
       ELSE IF ~paged.ok THEN Raise("NotFound")
       ELSE IF questions_data = <<>> \/ categories = <<>> THEN Raise("NotFound")
       ELSE Return([success |-> TRUE,
                    total_questions |-> paged.total,
                    questions |-> questions_data,
                    categories |-> categories,
                    current_category |-> "null"])

PageArgs == {JNull, JStr(<<"0">>), JStr(<<"1">>), JStr(<<"\f", "+", "2", "U+00A0">>),
             JStr(<<"x">>)}

get_questions ==
    \E arg \in PageArgs, fault \in BOOLEAN :
        /\ Ready
        /\ fault => arg = JNull
        /\ request' = [kind |-> "get_questions", page |-> arg, fault |-> fault]
        /\ Respond(get_questions_try(arg, fault))
        /\ pc' = "done"
        /\ served' = served + 1
        /\ local' = NoLocal
        /\ UNCHANGED <<questions, categories, nextId>>
        /\ trip' = TripNext

---------------------------------------------------------------------------
\* DELETE /questions/id

\* Ids a client names.
ClientIds == {0, 1, 2, 3}

\* The data layer may fail in the get of line 99 or in the commit of line
\* 106.  The read of question.id of line 110 is of a deleted row, which
\* the commit takes out of the session with its attributes as loaded: it
\* does not go to the database.
delete_question_try(id, fault) ==
    IF fault THEN Raise("DataError")
    ELSE IF Get(questions, id) = <<>> THEN Raise("NotFound")
    ELSE Return([success |-> TRUE, id |-> Get(questions, id)[1].id])

\* The table after the handler: the row is gone when the commit went
\* through, and the rollback leaves the table as it was otherwise.
delete_question_table(id, fault) ==
    IF delete_question_try(id, fault).kind = "return"
    THEN DeleteRow(questions, id)
    ELSE questions

delete_question ==
    \E id \in ClientIds, fault \in BOOLEAN :
        /\ Ready
        /\ fault => id = 1
        /\ request' = [kind |-> "delete_question", id |-> id, fault |-> fault]
        /\ Respond(delete_question_try(id, fault))
        /\ questions' = delete_question_table(id, fault)
        /\ pc' = "done"
        /\ served' = served + 1
        /\ local' = NoLocal
        /\ UNCHANGED <<categories, nextId>>
        /\ trip' = TripNext

---------------------------------------------------------------------------
\* POST /questions

\* A body is absent (get_json() gives None) or an object; a key the
\* object lacks reads as None.
NoBody == [present |-> FALSE]

\* Where the data layer fails: nowhere, in the commit of line 138, or in
\* the read of new_question.id of line 142.  The commit expires the
\* attributes of new_question, and the read fetches the row again.
AddFaults == {"none", "commit", "id"}

add_question_try(data, fault) ==
    IF ~data.present THEN Raise("AttributeError")
    ELSE LET difficulty == PyInt(data.difficulty)
         IN IF ~difficulty.ok THEN Raise(difficulty.exc)
            ELSE IF ~(/\ Truthy(data.question)
                      /\ Truthy(data.answer)
                      /\ difficulty.n # 0
                      /\ Truthy(data.category))
            THEN Raise("BadRequest")
            ELSE IF fault = "commit" \/ ~IntegerColumn(data.category).ok
            THEN Raise("DataError")
            ELSE IF fault = "id" THEN Raise("OperationalError")
            ELSE Return([success |-> TRUE, id |-> nextId])

\* The commit of line 138 went through: the try block returned, or it
\* failed after the commit.
add_question_committed(data, fault) ==
    add_question_try(data, fault).kind = "return"
        \/ add_question_try(data, fault).exc = "OperationalError"

\* The table after the handler: the row is in the table once the commit
\* went through, and the rollback of the except block does not take it
\* out; before the commit the rollback leaves the table as it was.
add_question_table(data, fault) ==
    IF add_question_committed(data, fault)
    THEN InsertRow(questions,
                   Question(nextId, TextColumn(data.question),
                            TextColumn(data.answer), PyInt(data.difficulty).n,
                            IntegerColumn(data.category).n))
    ELSE questions

\* The id sequence after the handler: an insert draws the next id, and an
\* insert the data layer refuses may or may not have drawn one.
add_question_ids(data, fault) ==
    IF add_question_committed(data, fault) THEN {nextId + 1}
    ELSE IF add_question_try(data, fault).exc = "DataError" THEN {nextId, nextId + 1}
    ELSE {nextId}

AddBodies ==
    {NoBody} \cup
    [present : {TRUE},
     question : {JNull, JStr(<<>>), JStr(<<"a">>)},
     answer : {JNull, JStr(<<"a">>)},
     difficulty : {JNull, JInt(0), JInt(1), JStr(<<"0", "_", "1">>)},
     category : {JNull, JInt(0), JInt(1), JStr(<<"1">>)}]

add_question ==
    \E data \in AddBodies, fault \in AddFaults :
        /\ Ready
        /\ fault # "none" => add_question_try(data, "none").kind = "return"
        /\ request' = [kind |-> "add_question", data |-> data, fault |-> fault]
        /\ Respond(add_question_try(data, fault))
        /\ questions' = add_question_table(data, fault)
        /\ nextId' \in add_question_ids(data, fault)
        /\ pc' = "done"
        /\ served' = served + 1
        /\ local' = NoLocal
        /\ UNCHANGED categories
        /\ trip' = TripNext

---------------------------------------------------------------------------
\* POST /questions/search

search_questions_try(data, fault) ==
    IF ~data.present THEN Raise("AttributeError")
    ELSE IF fault THEN Raise("DataError")
    ELSE LET found == FormatAll(FilterByTerm(questions, data.searchTerm))
         IN Return([success |-> TRUE,
                    questions |-> found,
                    total_questions |-> Len(found),
                    current_category |-> "null"])

SearchTerms == {JNull, JInt(1), JStr(<<>>), JStr(<<"a">>), JStr(<<"B">>),
                JStr(<<"a", "b">>), JStr(<<"_">>)}

SearchBodies == {NoBody} \cup [present : {TRUE}, searchTerm : SearchTerms]

search_questions ==
    \E data \in SearchBodies, fault \in BOOLEAN :
        /\ Ready
        /\ fault => data = [present |-> TRUE, searchTerm |-> JStr(<<"a">>)]
        /\ request' = [kind |-> "search_questions", data |-> data, fault |-> fault]
        /\ Respond(search_questions_try(data, fault))
        /\ pc' = "done"
        /\ served' = served + 1
        /\ local' = NoLocal
        /\ UNCHANGED <<questions, categories, nextId>>
        /\ trip' = TripNext

---------------------------------------------------------------------------
\* GET /categories/id/questions

get_questions_by_category_try(id, fault) ==
    LET found == FilterByCategory(questions, id)
        questions_data == FormatAll(found)
    IN IF fault THEN Raise("DataError")
       ELSE IF questions_data = <<>> THEN Raise("NotFound")
       ELSE Return([success |-> TRUE,
                    total_questions |-> Len(found),
                    questions |-> questions_data,
                    current_category |-> id])

get_questions_by_category ==
    \E id \in ClientIds, fault \in BOOLEAN :
        /\ Ready
        /\ fault => id = 1
        /\ request' = [kind |-> "get_questions_by_category", id |-> id,
                       fault |-> fault]
        /\ Respond(get_questions_by_category_try(id, fault))
        /\ pc' = "done"
        /\ served' = served + 1
        /\ local' = NoLocal
        /\ UNCHANGED <<questions, categories, nextId>>
        /\ trip' = TripNext

---------------------------------------------------------------------------
\* POST /quizzes

\* previous_questions is a list of ids, or None when the key is absent;
\* quiz_category is an object with an id, or None when the key is absent.
NoList == [present |-> FALSE, ids |-> {}]

List(ids) == [present |-> TRUE, ids |-> ids]

NoCategory == [present |-> FALSE, id |-> 0]

Category(id) == [present |-> TRUE, id |-> id]

\* Get the questions by category.
QuizPool(quiz_category) ==
    IF quiz_category.id = 0 THEN questions
    ELSE FilterByCategory(questions, quiz_category.id)

\* Mutant: the test lets every draw through.
NotPreviousAlways(question, previous_questions) == TRUE

\* question.id not in previous_questions
NotPrevious(question, previous_questions) ==
    question.id \notin previous_questions.ids

\* The handler up to its while loop.
play_quiz_try(data, fault) ==
    IF ~data.present THEN Raise("AttributeError")
    ELSE IF ~data.quiz_category.present THEN Raise("TypeError")
    ELSE IF fault THEN Raise("DataError")
    ELSE Return(QuizPool(data.quiz_category))

QuizBodies ==
    {NoBody} \cup
    [present : {TRUE},
     previous_questions : {NoList, List({}), List({1}), List({1, 2})},
     quiz_category : {NoCategory, Category(0), Category(2), Category(3)}]

play_quiz ==
    \E data \in QuizBodies, fault \in BOOLEAN :
        /\ Ready
        /\ fault => data = [present |-> TRUE, previous_questions |-> List({}),
                            quiz_category |-> Category(0)]
        /\ request' = [kind |-> "play_quiz", data |-> data, fault |-> fault]
        /\ served' = served + 1
        /\ IF play_quiz_try(data, fault).kind = "raise"
           THEN /\ Respond(play_quiz_try(data, fault))
                /\ pc' = "done"
                /\ local' = NoLocal
           ELSE /\ pc' = "loop"
                /\ local' = [questions |-> play_quiz_try(data, fault).body,
                             question |-> <<>>]
                /\ response' = NoResponse
                /\ session' = NoSession
        /\ UNCHANGED <<questions, categories, nextId>>
        /\ trip' = TripNext

\* One turn of the while loop is a draw, question = random.choice(questions),
\* and a test, question.id not in previous_questions.  random.choice of an
\* empty list raises IndexError, and "in None" raises TypeError.
\* Mutant: a draw from an empty pool goes round again.
play_quiz_draw_empty_again ==
    /\ pc = "loop"
    /\ local.questions = <<>>
    /\ UNCHANGED vars

play_quiz_draw_empty ==
    /\ pc = "loop"
    /\ local.questions = <<>>
    /\ Respond(Raise("IndexError"))
    /\ pc' = "done"
    /\ UNCHANGED <<questions, categories, nextId, request, local, served>>
    /\ trip' = TripNext

play_quiz_draw ==
    /\ pc = "loop"
    /\ \E i \in 1..Len(local.questions) :
           local' = [local EXCEPT !.question = <<local.questions[i]>>]
    /\ pc' = "test"
    /\ UNCHANGED <<questions, categories, nextId, request, response, session,
                   served>>
    /\ trip' = TripNext

play_quiz_test_no_list ==
    /\ pc = "test"
    /\ ~request.data.previous_questions.present
    /\ Respond(Raise("TypeError"))
    /\ pc' = "done"
    /\ UNCHANGED <<questions, categories, nextId, request, local, served>>
    /\ trip' = TripNext

\* The draw is a previous question: the loop goes round again.
play_quiz_test_again ==
    /\ pc = "test"
    /\ request.data.previous_questions.present
    /\ ~NotPrevious(local.question[1], request.data.previous_questions)
    /\ pc' = "loop"
    /\ UNCHANGED <<questions, categories, nextId, request, response, session,
                   local, served>>
    /\ trip' = TripNext

\* The draw is not a previous question: break, and return it.
play_quiz_test_break ==
    /\ pc = "test"
    /\ request.data.previous_questions.present
    /\ NotPrevious(local.question[1], request.data.previous_questions)
    /\ Respond(Return([success |-> TRUE, question |-> Format(local.question[1])]))
    /\ pc' = "done"
    /\ UNCHANGED <<questions, categories, nextId, request, local, served>>
    /\ trip' = TripNext

\* A draw of a question that is not a previous question.
LuckyDraw ==
    /\ play_quiz_draw
    /\ request.data.previous_questions.present
    /\ NotPrevious(local'.question[1], request.data.previous_questions)

---------------------------------------------------------------------------

Next ==
    \/ get_categories
    \/ get_questions
    \/ delete_question
    \/ add_question
    \/ search_questions
    \/ get_questions_by_category
    \/ play_quiz
    \/ play_quiz_draw_empty
    \/ play_quiz_draw
    \/ play_quiz_test_no_list
    \/ play_quiz_test_again
    \/ play_quiz_test_break


Spec == Init /\ [][Next]_vars

\* The loop never pauses, and random.choice draws uniformly: a question
\* that is not a previous question is drawn eventually when there is one.
FairSpec ==
    /\ Spec
    /\ WF_vars(play_quiz_draw_empty)
    /\ WF_vars(play_quiz_draw)
    /\ WF_vars(play_quiz_test_no_list)
    /\ WF_vars(play_quiz_test_again)
    /\ WF_vars(play_quiz_test_break)
    /\ SF_vars(LuckyDraw)

---------------------------------------------------------------------------
\* Properties.

\* The last request served was of this kind, and its response is out.
Done(kind) == pc = "done" /\ request.kind = kind

\* This step takes a request of this kind.
Took(kind) == served' = served + 1 /\ request'.kind = kind

NotFoundBody == [success |-> FALSE, error |-> 404, message |-> "Resource not found"]

UnprocessableBody ==
    [success |-> FALSE, error |-> 422, message |-> "Unprocessable entity"]

\* text contains term, letter case aside
ContainsCI(text, term) ==
    \E i \in 0..(Len(text) - Len(term)) :
        \A j \in 1..Len(term) : Lower(text[i + j]) = Lower(term[j])

\* The questions a quiz of this category draws from.
InPool(q, category) == category.id = 0 \/ q.category = category.id

\* C1: DELETE /questions/{id} for an id that is not in the question table
\* answers 404 with the body {success: false, error: 404}, and leaves the
\* table as it was.
C1_DeleteAbsentIsNotFound ==
    [][(Took("delete_question") /\ ~request'.fault
            /\ request'.id \notin Ids(questions))
        => /\ response'.status = 404
           /\ response'.body = NotFoundBody
           /\ questions' = questions]_vars

\* C2: POST /questions with question, answer, difficulty or category missing
\* or falsy answers 400, and inserts no row.
C2_AddFalsyIsBadRequest ==
    [][(Took("add_question") /\ request'.data.present
            /\ (\/ ~Truthy(request'.data.question)
                \/ ~Truthy(request'.data.answer)
                \/ ~Truthy(request'.data.difficulty)
                \/ ~Truthy(request'.data.category)))
        => /\ response'.status = 400
           /\ questions' = questions]_vars

\* C3: a successful POST /quizzes returns a question of the pool (any
\* question when the category id is 0, a question of that category
\* otherwise) whose id is not in previous_questions.
C3_QuizReturnsUnseenOfPool ==
    (Done("play_quiz") /\ response.status = 200)
    => /\ \E r \in Rows(questions) :
              /\ Format(r) = response.body.question
              /\ InPool(r, request.data.quiz_category)
       /\ response.body.question.id \notin request.data.previous_questions.ids

\* A quiz was answered although a question of its category was excluded.
C3_Witness ==
    /\ Done("play_quiz")
    /\ response.status = 200
    /\ request.data.quiz_category.id # 0
    /\ \E r \in Rows(questions) :
           /\ InPool(r, request.data.quiz_category)
           /\ r.id \in request.data.previous_questions.ids

\* The pool of the quiz in progress is not empty, and every question of it
\* is a previous question.
Exhausted ==
    /\ local.questions # <<>>
    /\ request.data.previous_questions.present
    /\ \A i \in 1..Len(local.questions) :
           local.questions[i].id \in request.data.previous_questions.ids

\* C4: POST /quizzes with an exhausted pool ends: a response is produced.
C4_ExhaustedQuizEnds == (pc = "loop" /\ Exhausted) ~> (pc = "done")

\* A quiz whose pool has a question left ends (the loop is not the fault
\* of the draws).
QuizWithQuestionLeftEnds == (pc = "loop" /\ local.questions # <<>> /\ ~Exhausted) ~> (pc = "done")

\* C5: after a POST /questions that returned id i, DELETE /questions/i
\* answers {success: true, id: i}, no question i is left and the table is
\* the table before the create; a second DELETE /questions/i answers that
\* the question is not found.
C5_CreateDeleteRoundTrip ==
    [][/\ (trip.stage = "created" /\ Took("delete_question")
              /\ request'.id = trip.id /\ ~request'.fault)
          => /\ response' = [status |-> 200,
                             body |-> [success |-> TRUE, id |-> trip.id]]
             /\ trip.id \notin Ids(questions')
             /\ questions' = trip.table
       /\ (trip.stage = "deleted" /\ Took("delete_question")
              /\ request'.id = trip.id /\ ~request'.fault)
          => /\ response'.status = 404
             /\ questions' = questions]_vars

\* The rows of page p: positions 10(p-1)+1 .. 10p of the table.
PageRows(p) ==
    [i \in 1..(IF Len(questions) - QUESTIONS_PER_PAGE * (p - 1) > QUESTIONS_PER_PAGE
               THEN QUESTIONS_PER_PAGE
               ELSE IF Len(questions) - QUESTIONS_PER_PAGE * (p - 1) > 0
                    THEN Len(questions) - QUESTIONS_PER_PAGE * (p - 1)
                    ELSE 0)
       |-> questions[QUESTIONS_PER_PAGE * (p - 1) + i]]

\* C6: GET /questions?page=p with categories and a page that is not empty
\* returns the rows of the page, at most 10, and the size of the whole
\* table as total_questions; with an empty page or no categories it
\* answers 404.
C6_PageOrNotFound ==
    (Done("get_questions") /\ ~request.fault
        /\ PyInt(PageArg(request.page)).ok
        /\ PyInt(PageArg(request.page)).n >= 1)
    => LET p == PyInt(PageArg(request.page)).n
       IN IF categories # <<>> /\ PageRows(p) # <<>>
          THEN /\ response.status = 200
               /\ Len(response.body.questions) <= 10
               /\ response.body.questions = FormatAll(PageRows(p))
               /\ response.body.total_questions = Len(questions)
          ELSE response.status = 404

\* C7: POST /questions/search answers 200 with exactly the questions whose
\* text contains the term, letter case aside, and their number; with no
\* match, an empty list and 0.
C7_SearchIsSubstringMatch ==
    (Done("search_questions") /\ ~request.fault /\ request.data.present
        /\ request.data.searchTerm.t = "str")
    => /\ response.status = 200
       /\ response.body.success
       /\ Rows(response.body.questions)
            = {Format(q) : q \in {r \in Rows(questions) :
                                    ContainsCI(r.question, request.data.searchTerm.s)}}
       /\ response.body.total_questions = Cardinality(Rows(response.body.questions))

\* C8: an exception raised in a handler's try block is caught there, the
\* session is rolled back and the response is 422; the session is closed
\* once on every way out, and not before the outcome is decided; no
\* response is 500.
C8_EveryExceptionIs422 ==
    /\ pc \in {"loop", "test"} => session.closed = 0
    /\ pc = "done"
       => /\ session.closed = 1
          /\ response.status # 500
          /\ session.raised # "none"
             => /\ session.rolledBack
                /\ response = [status |-> 422, body |-> UnprocessableBody]
          /\ session.raised = "none"
             => /\ ~session.rolledBack
                /\ response.status = 200

\* A handler's own abort(404) was caught by its except block.
C8_Witness ==
    /\ Done("delete_question")
    /\ session.raised = "NotFound"
    /\ session.rolledBack
    /\ response.status = 422

\* C9 as claimed: POST /quizzes with an empty pool never produces a
\* response.
C9_EmptyPoolNeverAnswers ==
    (/\ request.kind = "play_quiz"
     /\ request.data.present
     /\ request.data.quiz_category.present
     /\ ~request.fault
     /\ \A r \in Rows(questions) : ~InPool(r, request.data.quiz_category))
    => pc # "done"

\* C9, amended: POST /quizzes with an empty pool ends with the response
\* 422: the draw from the empty list raises, and the handler catches it.
C9_EmptyPoolAnswers422 ==
    (pc = "loop" /\ local.questions = <<>>)
    ~> (pc = "done" /\ response = [status |-> 422, body |-> UnprocessableBody])

\* A quiz over an empty pool was answered.
C9_Witness ==
    /\ Done("play_quiz")
    /\ request.data.present
    /\ request.data.quiz_category.present
    /\ ~request.fault
    /\ \A r \in Rows(questions) : ~InPool(r, request.data.quiz_category)
    /\ session.raised = "IndexError"
    /\ response.status = 422

\* C10: the categories never change; a successful POST /questions adds one
\* question with a new id and leaves the others, a successful DELETE
\* /questions/{id} removes the question of that id and no other, and any
\* other step, a read or a request answered with an error, leaves the
\* question table as it was.
C10_Frame ==
    [][/\ categories' = categories
       /\ IF Took("add_question") /\ response'.status = 200
          THEN /\ Len(questions') = Len(questions) + 1
               /\ SubSeq(questions', 1, Len(questions)) = questions
               /\ questions'[Len(questions')].id = response'.body.id
               /\ response'.body.id \notin Ids(questions)
          ELSE IF Took("delete_question") /\ response'.status = 200
          THEN /\ request'.id \in Ids(questions)
               /\ Len(questions') = Len(questions) - 1
               /\ Rows(questions') = {q \in Rows(questions) : q.id # request'.id}
          ELSE questions' = questions]_vars

=============================================================================
